---- MODULE Spec2Model ----
(***************************************************************************)
(* Model of package config (src/config.go): LoadFromEnvironment,           *)
(* MustLoadFromEnvironment, loadRecursive and camelToUpperSnakeCase.        *)
(*                                                                         *)
(* Go strings are sequences of one-character strings, so that the name     *)
(* derivation is computed character by character as the code does.         *)
(* A reflect.Value is a record [kind, fields, elems, v]:                   *)
(*   kind   - reflect.Kind as printed by Kind.String()                     *)
(*   fields - for a struct, the sequence of [name, exported, val]          *)
(*   elems  - for an array or slice, the sequence of element values        *)
(*   v      - for a scalar, its value                                      *)
(***************************************************************************)
EXTENDS Integers, Sequences, FiniteSets, TLC

VARIABLES
    target0,     \* the target as the caller built it (never changes)
    prefix,      \* the prefix argument
    env,         \* the process environment: key -> value
    target,      \* the target handed to LoadFromEnvironment
    err,         \* the error LoadFromEnvironment returned
    lookups,     \* the os.LookupEnv calls LoadFromEnvironment made, in order
    pc,          \* "ready" | "returned"
    mustTarget,  \* an identical target handed to MustLoadFromEnvironment
    panicValue,  \* the value MustLoadFromEnvironment panicked with
    mustPc,      \* "ready" | "returned" | "panicked"
    dIn,         \* camelToUpperSnakeCase: argument in
    dPrefix,     \* camelToUpperSnakeCase: argument prefix
    dOut,        \* camelToUpperSnakeCase: result
    dPc          \* "ready" | "done"

vars == <<target0, prefix, env, target, err, lookups, pc,
          mustTarget, panicValue, mustPc, dIn, dPrefix, dOut, dPc>>

loadVars == <<target0, prefix, env, target, err, lookups, pc,
              mustTarget, panicValue, mustPc>>

deriveVars == <<dIn, dPrefix, dOut, dPc>>

-----------------------------------------------------------------------------
(* Characters                                                              *)

LowerLetters == <<"a","b","c","d","e","f","g","h","i","j","k","l","m",
                  "n","o","p","q","r","s","t","u","v","w","x","y","z">>

UpperLetters == <<"A","B","C","D","E","F","G","H","I","J","K","L","M",
                  "N","O","P","Q","R","S","T","U","V","W","X","Y","Z">>

Digits == <<"0","1","2","3","4","5","6","7","8","9">>

\* unicode.IsUpper, on ASCII
IsUpper(char) == \E i \in DOMAIN UpperLetters : UpperLetters[i] = char

\* unicode.ToUpper, on ASCII
ToUpperChar(char) ==
    IF \E i \in DOMAIN LowerLetters : LowerLetters[i] = char
    THEN UpperLetters[CHOOSE i \in DOMAIN LowerLetters : LowerLetters[i] = char]
    ELSE char

\* strings.ToUpper
ToUpper(str) == [i \in DOMAIN str |-> ToUpperChar(str[i])]

-----------------------------------------------------------------------------
(* camelToUpperSnakeCase, src/config.go:95-123                             *)

RECURSIVE snakeLoopSplittingRuns(_, _, _, _)
\* The loop without its upperSequence test: "_" before every upper-case
\* character but the first.
snakeLoopSplittingRuns(in, pos, s, upperSequence) ==
    IF pos > Len(in) THEN s
    ELSE LET char == in[pos]
             s1   == IF pos # 1 /\ IsUpper(char) THEN s \o <<"_">> ELSE s
         IN  snakeLoopSplittingRuns(in, pos + 1, s1 \o <<ToUpperChar(char)>>,
                                    IsUpper(char))

RECURSIVE snakeLoop(_, _, _, _)
\* The for-range loop of camelToUpperSnakeCase; pos is the 1-based position
\* of char (the code's byte offset pos is 0 exactly at the first character).
snakeLoop(in, pos, s, upperSequence) ==
    IF pos > Len(in) THEN s
    ELSE LET char    == in[pos]
             isUpper == IsUpper(char)
             s1      == IF pos # 1 /\ isUpper /\ ~upperSequence
                        THEN s \o <<"_">> ELSE s
         IN  IF isUpper
             THEN snakeLoop(in, pos + 1, s1 \o <<char>>, TRUE)
             ELSE snakeLoop(in, pos + 1, s1 \o <<ToUpperChar(char)>>, FALSE)

\* camelToUpperSnakeCase without strings.ToUpper(prefix).
camelToUpperSnakeCaseRawPrefix(in, pfx) ==
    IF in = <<>> THEN pfx
    ELSE LET s == snakeLoop(in, 1, <<>>, FALSE)
         IN  IF pfx = <<>> THEN s ELSE pfx \o <<"_">> \o s

camelToUpperSnakeCase(in, pfx) ==
    LET p == ToUpper(pfx)
    IN  IF in = <<>> THEN p
        ELSE LET s == snakeLoop(in, 1, <<>>, FALSE)
             IN  IF p = <<>> THEN s ELSE p \o <<"_">> \o s

-----------------------------------------------------------------------------
(* Errors, as built by fmt.Errorf in loadRecursive.  The message is kept   *)
(* as its format (type), the key and the kind it names.                    *)

Nil == [type |-> "nil", key |-> <<>>, kind |-> ""]

\* "failed to parse environment key: %s to int: %w" / "... to bool: %w"
CoercionError(key, kind) == [type |-> "coercion", key |-> key, kind |-> kind]

\* "failed to parse key: %s, unsupported field type: %s"
UnsupportedTypeError(key, kind) ==
    [type |-> "unsupported", key |-> key, kind |-> kind]

-----------------------------------------------------------------------------
(* strconv.Atoi and strconv.ParseBool as loadRecursive calls them          *)

DigitValue(ch) == (CHOOSE i \in DOMAIN Digits : Digits[i] = ch) - 1

IsDigit(ch) == \E i \in DOMAIN Digits : Digits[i] = ch

RECURSIVE atoiLoop(_, _, _)
\* for _, ch := range []byte(s) { ch -= '0'; if ch > 9 {error}; n = n*10 + ch }
atoiLoop(s, i, n) ==
    IF i > Len(s) THEN [ok |-> TRUE, n |-> n]
    ELSE IF ~IsDigit(s[i]) THEN [ok |-> FALSE, n |-> 0]
    ELSE atoiLoop(s, i + 1, n * 10 + DigitValue(s[i]))

\* strconv.Atoi on a string of fewer than 19 bytes (its fast path); the empty
\* string is a syntax error.  Every value drawn below is that short.
Atoi(s0) ==
    IF Len(s0) = 0 THEN [ok |-> FALSE, n |-> 0]
    ELSE LET signed == s0[1] = "-" \/ s0[1] = "+"
             s      == IF signed THEN Tail(s0) ELSE s0
         IN  IF signed /\ Len(s) < 1 THEN [ok |-> FALSE, n |-> 0]
             ELSE LET r == atoiLoop(s, 1, 0)
                  IN  IF r.ok /\ s0[1] = "-"
                      THEN [ok |-> TRUE, n |-> 0 - r.n]
                      ELSE r

\* strconv.ParseBool
ParseBool(str) ==
    IF str \in { <<"1">>, <<"t">>, <<"T">>, <<"T","R","U","E">>,
                 <<"t","r","u","e">>, <<"T","r","u","e">> }
    THEN [ok |-> TRUE, b |-> TRUE]
    ELSE IF str \in { <<"0">>, <<"f">>, <<"F">>, <<"F","A","L","S","E">>,
                      <<"f","a","l","s","e">>, <<"F","a","l","s","e">> }
    THEN [ok |-> TRUE, b |-> FALSE]
    ELSE [ok |-> FALSE, b |-> FALSE]

\* Two's-complement truncation of x to a signed integer of 2^bits values.
Truncate(x, size) == ((x + size \div 2) % size) - size \div 2

\* reflect.Value.SetInt(int64(n)): the store converts to the field's own
\* width (int8(x), int16(x), ...) without any overflow check.  Every integer
\* TLC represents lies within int32, and Atoi returns an int (64 bits), so
\* the conversion is the identity for int32, int64 and int here.
SetInt(kind, n) ==
    CASE kind = "int8"  -> Truncate(n, 256)
      [] kind = "int16" -> Truncate(n, 65536)
      [] OTHER          -> n

-----------------------------------------------------------------------------
(* reflect.Value                                                           *)

IntKinds == {"int", "int8", "int16", "int32", "int64"}

Scalar(kind, v) == [kind |-> kind, fields |-> <<>>, elems |-> <<>>, v |-> v]

StructOf(fields) ==
    [kind |-> "struct", fields |-> fields, elems |-> <<>>, v |-> 0]

SequenceOf(kind, elems) ==
    [kind |-> kind, fields |-> <<>>, elems |-> elems, v |-> 0]

Field(name, exported, val) ==
    [name |-> name, exported |-> exported, val |-> val]

\* val.NumField()
NumField(val) == Len(val.fields)

\* A CanSet that lets unexported fields through.
CanSetAnyField(field) == TRUE

\* field.CanSet(): the root is reached through a pointer and so is
\* addressable, as is every element of it; a field is settable exactly when
\* it is exported.
CanSet(field) == field.exported

-----------------------------------------------------------------------------
(* loadRecursive, src/config.go:42-91.  A result is the value as left by   *)
(* the call, the error returned and the os.LookupEnv calls made so far.    *)
(* path is the position of val under the root (field and element indices), *)
(* kept only to tell the recorded lookups apart.                           *)

Result(val, e, log) == [val |-> val, err |-> e, log |-> log]

Lookup(path, key, kind, found, e) ==
    [path |-> path, key |-> key, kind |-> kind, found |-> found, err |-> e]

\* case reflect.Int, reflect.Int8, ..., reflect.Int64, lines 74-79
intCase(val, environmentKey, environmentValue) ==
    LET a == Atoi(environmentValue)
    IN  IF ~a.ok
        THEN [val |-> val, err |-> CoercionError(environmentKey, "int")]
        ELSE [val |-> [val EXCEPT !.v = SetInt(val.kind, a.n)], err |-> Nil]

\* A bool case that drops the parse error and stores ParseBool's zero result.
boolCaseIgnoringError(val, environmentKey, environmentValue) ==
    [val |-> [val EXCEPT !.v = ParseBool(environmentValue).b], err |-> Nil]

\* case reflect.Bool, lines 80-85
boolCase(val, environmentKey, environmentValue) ==
    LET b == ParseBool(environmentValue)
    IN  IF ~b.ok
        THEN [val |-> val, err |-> CoercionError(environmentKey, "bool")]
        ELSE [val |-> [val EXCEPT !.v = b.b], err |-> Nil]

\* A default case that skips the value instead of reporting its kind.
defaultCaseSkipping(val, environmentKey) == [val |-> val, err |-> Nil]

\* default, lines 86-87
defaultCase(val, environmentKey) ==
    [val |-> val, err |-> UnsupportedTypeError(environmentKey, val.kind)]

\* The switch on val.Kind() under a found environmentValue, lines 71-88:
\* the value stored and the error returned.
leafAssign(val, environmentKey, environmentValue) ==
    CASE val.kind = "string" ->
            [val |-> [val EXCEPT !.v = environmentValue], err |-> Nil]
      [] val.kind \in IntKinds ->
            intCase(val, environmentKey, environmentValue)
      [] val.kind = "bool" ->
            boolCase(val, environmentKey, environmentValue)
      [] OTHER ->
            defaultCase(val, environmentKey)

\* os.LookupEnv(environmentKey) and what follows it, lines 70-90.  The code
\* reaches this for every value whose loops returned no error, whatever its
\* kind.
lookupAndAssign(val, environmentKey, path, log) ==
    IF environmentKey \in DOMAIN env
    THEN LET a == leafAssign(val, environmentKey, env[environmentKey])
         IN  Result(a.val, a.err,
                    Append(log, Lookup(path, environmentKey, val.kind, TRUE, a.err)))
    ELSE Result(val, Nil,
                Append(log, Lookup(path, environmentKey, val.kind, FALSE, Nil)))

RECURSIVE loadRecursive(_, _, _, _)
RECURSIVE structLoop(_, _, _, _, _)
RECURSIVE sequenceLoop(_, _, _, _, _)

RECURSIVE structLoopKeepGoing(_, _, _, _, _)
\* The field loop without its early return: every field is processed and
\* the first error is returned at the end.
structLoopKeepGoing(val, environmentKey, path, i, log) ==
    IF i > NumField(val) THEN Result(val, Nil, log)
    ELSE IF ~CanSet(val.fields[i])
    THEN structLoopKeepGoing(val, environmentKey, path, i + 1, log)
    ELSE LET r == loadRecursive(val.fields[i].val,
                                camelToUpperSnakeCase(val.fields[i].name,
                                                      environmentKey),
                                Append(path, i), log)
             val1 == [val EXCEPT !.fields[i].val = r.val]
             rest == structLoopKeepGoing(val1, environmentKey, path, i + 1, r.log)
         IN  Result(rest.val, IF r.err # Nil THEN r.err ELSE rest.err, rest.log)

\* for i := 0; i < val.NumField(); i++ { ... }, lines 44-55 (i is 1-based)
structLoop(val, environmentKey, path, i, log) ==
    IF i > NumField(val) THEN Result(val, Nil, log)
    ELSE IF ~CanSet(val.fields[i])
    THEN structLoop(val, environmentKey, path, i + 1, log)
    ELSE LET fieldName == val.fields[i].name
             r == loadRecursive(val.fields[i].val,
                                camelToUpperSnakeCase(fieldName, environmentKey),
                                Append(path, i), log)
             val1 == [val EXCEPT !.fields[i].val = r.val]
         IN  IF r.err # Nil THEN Result(val1, r.err, r.log)
             ELSE structLoop(val1, environmentKey, path, i + 1, r.log)

\* for j := 0; j < val.Len(); j++ { ... }, lines 61-66 (j is 1-based)
sequenceLoop(val, environmentKey, path, j, log) ==
    IF j > Len(val.elems) THEN Result(val, Nil, log)
    ELSE LET r == loadRecursive(val.elems[j], environmentKey,
                                Append(path, j), log)
             val1 == [val EXCEPT !.elems[j] = r.val]
         IN  IF r.err # Nil THEN Result(val1, r.err, r.log)
             ELSE sequenceLoop(val1, environmentKey, path, j + 1, r.log)

loadRecursive(val, environmentKey, path, log) ==
    LET a == IF val.kind = "struct"
             THEN structLoop(val, environmentKey, path, 1, log)
             ELSE Result(val, Nil, log)
    IN  IF a.err # Nil THEN a
        ELSE LET b == IF val.kind = "array" \/ val.kind = "slice"
                      THEN sequenceLoop(a.val, environmentKey, path, 1, a.log)
                      ELSE a
             IN  IF b.err # Nil THEN b
                 ELSE lookupAndAssign(b.val, environmentKey, path, b.log)

-----------------------------------------------------------------------------
(* The entry points, src/config.go:23-40                                   *)

\* LoadFromEnvironment: loadRecursive(reflect.Indirect(ptr), prefix), and
\* the error returned as it is.
loadFromEnvironment(pt, pfx) == loadRecursive(pt, pfx, <<>>, <<>>)

\* A MustLoadFromEnvironment that drops the caller's prefix.
mustLoadFromEnvironmentNoPrefix(pt, pfx) ==
    LET r == loadRecursive(pt, <<>>, <<>>, <<>>)
    IN  [val |-> r.val, panicked |-> r.err # Nil, value |-> r.err]

\* MustLoadFromEnvironment: the same call, and panic(err) on an error.
mustLoadFromEnvironment(pt, pfx) ==
    LET r == loadRecursive(pt, pfx, <<>>, <<>>)
    IN  [val |-> r.val, panicked |-> r.err # Nil, value |-> r.err]

-----------------------------------------------------------------------------
(* Inputs                                                                  *)

MaxLen == 2         \* longest array or slice in a target
MaxNameLen == 4     \* longest name given to camelToUpperSnakeCase
MaxPrefixLen == 2   \* longest prefix given to camelToUpperSnakeCase

sFoo == <<"F","o","o">>
sBar == <<"B","a","r">>
sBaz == <<"B","a","z">>
sFooBar == <<"F","o","o","B","a","r">>
sFooBaz == <<"F","o","o","B","a","z">>
sfoo == <<"f","o","o">>
sbaz == <<"b","a","z">>
sFOO == <<"F","O","O">>
sFOO_BAR == <<"F","O","O","_","B","A","R">>
sFOO_BAZ == <<"F","O","O","_","B","A","Z">>
sFOO_FOO == <<"F","O","O","_","F","O","O">>
sDefault == <<"d">>

\* Keys the environment may hold.  os.LookupEnv("") finds nothing, and no
\* environment holds a variable with an empty name.
EnvKeys == {sFOO, sFOO_BAR, sFOO_BAZ, sFOO_FOO, sfoo}

EnvValues ==
    { <<"1">>, <<"0">>, <<"-","1","2">>, <<"3","0","0">>,
      <<"a","b","c","1","2","3">>, <<"t","r","u","e">>,
      <<"t","r","u","e","i","s","h">>, <<>> }

\* Environments with at most two of the keys set.
Envs ==
    UNION { [D -> EnvValues] :
              D \in {S \in SUBSET EnvKeys : \E a, b \in EnvKeys : S \subseteq {a, b}} }

Prefixes == { <<>>, sfoo }

\* A scalar of the given kind holding a value that no environment value
\* coerces to.
DefaultOf(kind) ==
    CASE kind = "string"  -> Scalar(kind, sDefault)
      [] kind \in IntKinds -> Scalar(kind, 5)
      [] kind = "bool"    -> Scalar(kind, FALSE)
      [] OTHER            -> Scalar(kind, 0)

ScalarKinds ==
    <<"string", "int", "int8", "int16", "int32", "int64", "bool",
      "chan", "float64">>

RootKinds == <<"string", "int8", "bool", "chan">>

\* struct{ Bar string } elements, n of them
BarRecords(n) ==
    [j \in 1..n |-> StructOf(<<Field(sBar, TRUE, Scalar("string", sbaz))>>)]

\* The targets LoadFromEnvironment is given: those of the tests, the same
\* shapes over every scalar kind, and one with several fields.
Targets ==
       \* struct{ Foo K }
       [k \in DOMAIN ScalarKinds |->
           StructOf(<<Field(sFoo, TRUE, DefaultOf(ScalarKinds[k]))>>)]
       \* var foo K
    \o [k \in DOMAIN RootKinds |-> DefaultOf(RootKinds[k])]
    \o << \* struct{ foo string }
          StructOf(<<Field(sfoo, FALSE, Scalar("string", sDefault))>>),
          \* struct{ FooBar string }
          StructOf(<<Field(sFooBar, TRUE, Scalar("string", sDefault))>>),
          \* struct{ Foo struct{ Bar string } }
          StructOf(<<Field(sFoo, TRUE,
              StructOf(<<Field(sBar, TRUE, Scalar("string", sDefault))>>))>>),
          \* struct{ Foo struct{ Bar int } }
          StructOf(<<Field(sFoo, TRUE,
              StructOf(<<Field(sBar, TRUE, Scalar("int", 0))>>))>>),
          \* struct{}
          StructOf(<<>>),
          \* struct{ FooBar string; Foo struct{ Bar string; baz bool; Baz int16 };
          \*         FooBaz string }
          StructOf(<<Field(sFooBar, TRUE, Scalar("string", sDefault)),
                     Field(sFoo, TRUE,
                        StructOf(<<Field(sBar, TRUE, Scalar("string", sDefault)),
                                   Field(sbaz, FALSE, Scalar("bool", FALSE)),
                                   Field(sBaz, TRUE, Scalar("int16", 5))>>)),
                     Field(sFooBaz, TRUE, Scalar("string", sDefault))>>) >>
       \* struct{ Foo []struct{ Bar string } } with 0..MaxLen elements
    \o [n \in 1..(MaxLen + 1) |->
           StructOf(<<Field(sFoo, TRUE, SequenceOf("slice", BarRecords(n - 1)))>>)]
       \* struct{ Foo [n]string } with 0..MaxLen elements
    \o [n \in 1..(MaxLen + 1) |->
           StructOf(<<Field(sFoo, TRUE,
              SequenceOf("array", [j \in 1..(n - 1) |-> Scalar("string", sDefault)]))>>)]

Alphabet == {"A", "B", "a", "_"}

StringsUpTo(n) == UNION { [1..k -> Alphabet] : k \in 0..n }

-----------------------------------------------------------------------------
(* The callers: one call of each entry point, each on its own copy of the  *)
(* same target, under the same environment.                                *)

Init ==
    /\ \E t \in DOMAIN Targets : target0 = Targets[t]
    /\ prefix \in Prefixes
    /\ env \in Envs
    /\ target = target0
    /\ err = Nil
    /\ lookups = <<>>
    /\ pc = "ready"
    /\ mustTarget = target0
    /\ panicValue = Nil
    /\ mustPc = "ready"
    /\ dIn = <<>> /\ dPrefix = <<>> /\ dOut = <<>> /\ dPc = "done"

LoadFromEnvironment ==
    /\ pc = "ready"
    /\ LET r == loadFromEnvironment(target, prefix)
       IN  /\ target' = r.val
           /\ err' = r.err
           /\ lookups' = r.log
    /\ pc' = "returned"
    /\ UNCHANGED <<target0, prefix, env, mustTarget, panicValue, mustPc>>
    /\ UNCHANGED deriveVars

MustLoadFromEnvironment ==
    /\ mustPc = "ready"
    /\ LET r == mustLoadFromEnvironment(mustTarget, prefix)
       IN  /\ mustTarget' = r.val
           /\ panicValue' = r.value
           /\ mustPc' = IF r.panicked THEN "panicked" ELSE "returned"
    /\ UNCHANGED <<target0, prefix, env, target, err, lookups, pc>>
    /\ UNCHANGED deriveVars

Next == LoadFromEnvironment \/ MustLoadFromEnvironment

Spec == Init /\ [][Next]_vars

(* camelToUpperSnakeCase applied to every name and prefix within the bounds *)

InitDerive ==
    /\ dIn \in StringsUpTo(MaxNameLen)
    /\ dPrefix \in StringsUpTo(MaxPrefixLen)
    /\ dOut = <<>>
    /\ dPc = "ready"
    /\ target0 = StructOf(<<>>) /\ target = target0 /\ mustTarget = target0
    /\ prefix = <<>> /\ env = <<>> /\ err = Nil /\ lookups = <<>>
    /\ panicValue = Nil /\ pc = "returned" /\ mustPc = "returned"

Derive ==
    /\ dPc = "ready"
    /\ dOut' = camelToUpperSnakeCase(dIn, dPrefix)
    /\ dPc' = "done"
    /\ UNCHANGED <<dIn, dPrefix>>
    /\ UNCHANGED loadVars

NextDerive == Derive

SpecDerive == InitDerive /\ [][NextDerive]_vars

-----------------------------------------------------------------------------
(* Vocabulary of the properties                                            *)

Composite(kind) == kind \in {"struct", "array", "slice"}

Supported(kind) == kind = "string" \/ kind \in IntKinds \/ kind = "bool"

\* The values directly under a struct (its fields' values) or a sequence.
Children(n) ==
    IF n.kind = "struct" THEN [i \in DOMAIN n.fields |-> n.fields[i].val]
    ELSE n.elems

RECURSIVE AllPaths(_)
AllPaths(n) ==
    {<<>>} \cup UNION { { <<i>> \o q : q \in AllPaths(Children(n)[i]) } :
                         i \in DOMAIN Children(n) }

RECURSIVE NodeAt(_, _)
NodeAt(n, p) == IF p = <<>> THEN n ELSE NodeAt(Children(n)[Head(p)], Tail(p))

RECURSIVE Accessible(_, _)
\* Every field on the way to p is exported.
Accessible(n, p) ==
    \/ p = <<>>
    \/ /\ n.kind = "struct" => n.fields[Head(p)].exported
       /\ Accessible(Children(n)[Head(p)], Tail(p))

RECURSIVE FieldNames(_, _)
\* The names of the fields on the way to p (elements add none).
FieldNames(n, p) ==
    IF p = <<>> THEN <<>>
    ELSE (IF n.kind = "struct" THEN <<n.fields[Head(p)].name>> ELSE <<>>)
         \o FieldNames(Children(n)[Head(p)], Tail(p))

RECURSIVE NestedDerive(_, _)
\* derive(fn, ... derive(f1, pfx))
NestedDerive(pfx, names) ==
    IF names = <<>> THEN pfx
    ELSE NestedDerive(camelToUpperSnakeCase(Head(names), pfx), Tail(names))

\* The accumulated key of the value at p.
KeyOf(p) == NestedDerive(prefix, FieldNames(target0, p))

Leaves == { p \in AllPaths(target0) : ~Composite(NodeAt(target0, p).kind) }

AccessibleLeaves == { p \in Leaves : Accessible(target0, p) }

RECURSIVE Flatten(_)
Flatten(ss) == IF ss = <<>> THEN <<>> ELSE Head(ss) \o Flatten(Tail(ss))

\* The upper-snake form of a name, stated position by position: every
\* character upper-cased, and "_" before an upper-case character that is not
\* the first and does not follow an upper-case character.
UpperSnake(name) ==
    Flatten([i \in DOMAIN name |->
        (IF i > 1 /\ IsUpper(name[i]) /\ ~IsUpper(name[i - 1])
         THEN <<"_">> ELSE <<>>) \o <<ToUpperChar(name[i])>>])

RECURSIVE JoinWithUnderscore(_)
JoinWithUnderscore(parts) ==
    IF parts = <<>> THEN <<>>
    ELSE IF Len(parts) = 1 THEN Head(parts)
    ELSE Head(parts) \o <<"_">> \o JoinWithUnderscore(Tail(parts))

\* The upper-cased prefix (when there is one) and the upper-snake form of
\* each name, joined by "_".
JoinedKey(pfx, names) ==
    JoinWithUnderscore(
        (IF pfx = <<>> THEN <<>> ELSE <<ToUpper(pfx)>>)
        \o [i \in DOMAIN names |-> UpperSnake(names[i])])

\* p comes after f in declared field order, depth first: the two part ways
\* at some position, p to the later sibling.
RECURSIVE After(_, _)
After(f, p) ==
    /\ f # <<>> /\ p # <<>>
    /\ \/ Head(p) > Head(f)
       \/ Head(p) = Head(f) /\ After(Tail(f), Tail(p))

Returned == pc = "returned"

LookupSet == { lookups[i] : i \in DOMAIN lookups }

-----------------------------------------------------------------------------
(* Properties                                                              *)

\* C1: LoadFromEnvironment changes only accessible leaves whose accumulated
\* key is in the environment: whether it succeeds or fails, the target keeps
\* its shape, every inaccessible field and every leaf whose key is absent
\* holds the value it held before; and when no accumulated key of any
\* accessible value is in the environment, the call succeeds and the whole
\* target is unchanged.
C1_OnlyPresentAccessibleLeavesChange ==
    Returned =>
        /\ AllPaths(target) = AllPaths(target0)
        /\ \A p \in AllPaths(target0) :
              ~Accessible(target0, p) => NodeAt(target, p) = NodeAt(target0, p)
        /\ \A p \in Leaves :
              KeyOf(p) \notin DOMAIN env => NodeAt(target, p) = NodeAt(target0, p)
        /\ (\A p \in AllPaths(target0) :
               Accessible(target0, p) => KeyOf(p) \notin DOMAIN env)
           => err = Nil /\ target = target0

\* A call that changed the target and failed, while an inaccessible field
\* whose key is in the environment and a leaf whose key is absent kept theirs.
C1_Witness ==
    /\ Returned /\ err # Nil /\ target # target0
    /\ \E p \in Leaves : ~Accessible(target0, p) /\ KeyOf(p) \in DOMAIN env
    /\ \E p \in AccessibleLeaves : KeyOf(p) \notin DOMAIN env

\* A base-10 signed integer string: an optional sign and one digit or more.
IsDecimal(str) ==
    LET body == IF str # <<>> /\ Head(str) \in {"+", "-"} THEN Tail(str) ELSE str
    IN  body # <<>> /\ \A i \in DOMAIN body : IsDigit(body[i])

RECURSIVE DigitsValue(_)
DigitsValue(body) ==
    IF body = <<>> THEN 0
    ELSE DigitValue(body[Len(body)]) + 10 * DigitsValue(SubSeq(body, 1, Len(body) - 1))

\* The integer a base-10 signed integer string denotes.
DecimalValue(str) ==
    IF Head(str) = "-" THEN 0 - DigitsValue(Tail(str))
    ELSE IF Head(str) = "+" THEN DigitsValue(Tail(str))
    ELSE DigitsValue(str)

\* C2: an integer leaf of any width whose key is in the environment holds,
\* after a value that is a base-10 signed integer string, exactly the
\* integer the string denotes, and no error comes of it; after any other
\* value the call fails with the coercion error naming the key and "int",
\* and the leaf keeps its value.
C2_IntLeafHoldsDenotedInteger ==
    Returned =>
        \A l \in LookupSet :
            (l.kind \in IntKinds /\ l.found) =>
                IF IsDecimal(env[l.key])
                THEN /\ l.err = Nil
                     /\ NodeAt(target, l.path).v = DecimalValue(env[l.key])
                ELSE /\ err = CoercionError(l.key, "int")
                     /\ NodeAt(target, l.path) = NodeAt(target0, l.path)

TrueForms ==
    { <<"1">>, <<"t">>, <<"T">>, <<"t","r","u","e">>, <<"T","R","U","E">>,
      <<"T","r","u","e">> }

FalseForms ==
    { <<"0">>, <<"f">>, <<"F">>, <<"f","a","l","s","e">>,
      <<"F","A","L","S","E">>, <<"F","a","l","s","e">> }

\* C3: a boolean leaf whose key is in the environment holds, after one of
\* the conventional boolean forms, the boolean the form stands for, and no
\* error comes of it; after any other value the call fails with the
\* coercion error naming the key and "bool", and the leaf keeps its value.
C3_BoolLeafCoercion ==
    Returned =>
        \A l \in LookupSet :
            (l.kind = "bool" /\ l.found) =>
                IF env[l.key] \in TrueForms \cup FalseForms
                THEN /\ l.err = Nil
                     /\ NodeAt(target, l.path).v = (env[l.key] \in TrueForms)
                ELSE /\ err = CoercionError(l.key, "bool")
                     /\ NodeAt(target, l.path) = NodeAt(target0, l.path)

\* A boolean leaf was given "trueish" and the call failed.
C3_Witness ==
    /\ Returned /\ err.type = "coercion" /\ err.kind = "bool"
    /\ \E l \in LookupSet :
          /\ l.kind = "bool" /\ l.found
          /\ env[l.key] = <<"t","r","u","e","i","s","h">>

\* C4, as claimed: the call fails with the unsupported-type error naming the
\* key and the kind whenever the traversal reaches an accessible leaf of an
\* unsupported kind, whether or not the environment holds its key.
C4_UnsupportedLeafAlwaysFails ==
    Returned =>
        \A l \in LookupSet :
            (~Composite(l.kind) /\ ~Supported(l.kind)) =>
                err = UnsupportedTypeError(l.key, l.kind)

\* C4, amended: the call fails with the unsupported-type error naming the
\* key and the kind when the traversal reaches an accessible leaf of an
\* unsupported kind whose key is in the environment; when its key is absent
\* the leaf raises no error.  Either way the leaf keeps its value.
C4_UnsupportedLeafFailsWhenKeyPresent ==
    Returned =>
        \A l \in LookupSet :
            (~Composite(l.kind) /\ ~Supported(l.kind)) =>
                /\ l.found => err = UnsupportedTypeError(l.key, l.kind)
                /\ ~l.found => l.err = Nil
                /\ NodeAt(target, l.path) = NodeAt(target0, l.path)

\* A channel field whose key is in the environment made the call fail.
C4_Witness ==
    /\ Returned /\ err.type = "unsupported" /\ err.kind = "chan"
    /\ \E l \in LookupSet : l.kind = "chan" /\ l.found /\ Len(l.path) > 0

\* C5, as claimed: the key looked up for a leaf is the upper-cased prefix
\* followed by the upper-snake form of each field name on the way from the
\* root, joined by "_", the root itself (no field name) included.
C5_KeyIsUpperCasedPrefixAndNames ==
    Returned =>
        \A l \in LookupSet :
            ~Composite(l.kind) =>
                l.key = JoinedKey(prefix, FieldNames(target0, l.path))

\* C5, amended: every key looked up is derive(fn, ... derive(f1, prefix))
\* for the field names f1..fn on the way from the root; with one name or
\* more that is the upper-cased prefix followed by the upper-snake form of
\* each name, joined by "_"; for the root itself (no name) it is the prefix
\* exactly as the caller gave it, not upper-cased.
C5_KeyIsNestedDerive ==
    Returned =>
        \A l \in LookupSet :
            LET names == FieldNames(target0, l.path)
            IN  /\ l.key = NestedDerive(prefix, names)
                /\ names # <<>> => l.key = JoinedKey(prefix, names)
                /\ names = <<>> => l.key = prefix

\* Under a lower-case prefix, a field's value was found under its key, and a
\* leaf two fields down was looked up under FOO_FOO_BAR.
C5_Witness ==
    /\ Returned /\ prefix = sfoo
    /\ \E l \in LookupSet : l.found /\ Len(FieldNames(target0, l.path)) = 1
    /\ \E l \in LookupSet : l.key = <<"F","O","O","_","F","O","O","_","B","A","R">>

\* A struct with an exported string field Bar.
IsBarRecord(n) ==
    /\ n.kind = "struct"
    /\ \E i \in DOMAIN n.fields :
          /\ n.fields[i].name = sBar /\ n.fields[i].exported
          /\ n.fields[i].val.kind = "string"

BarOf(n) == n.fields[CHOOSE i \in DOMAIN n.fields : n.fields[i].name = sBar].val

\* C6: a sequence field of N records, each with a string field Bar, is bound
\* through one key shared by its elements: with that key (the sequence's
\* accumulated key and BAR, no index) set to v, the call succeeds, Bar is v
\* in all N elements and the sequence keeps its length.
C6_SequenceElementsShareKey ==
    Returned =>
        \A p \in AllPaths(target0) :
            LET seq    == NodeAt(target0, p)
                barKey == camelToUpperSnakeCase(sBar, KeyOf(p))
            IN  ( /\ seq.kind \in {"array", "slice"}
                  /\ Accessible(target0, p)
                  /\ \A j \in DOMAIN seq.elems : IsBarRecord(seq.elems[j])
                  /\ barKey \in DOMAIN env )
                => /\ err = Nil
                   /\ Len(NodeAt(target, p).elems) = Len(seq.elems)
                   /\ \A j \in DOMAIN seq.elems :
                         BarOf(NodeAt(target, p).elems[j]).v = env[barKey]

\* The value an accessible leaf holds once the traversal has passed it.
Assigned(p) ==
    IF KeyOf(p) \in DOMAIN env
    THEN leafAssign(NodeAt(target0, p), KeyOf(p), env[KeyOf(p)]).val
    ELSE NodeAt(target0, p)

ProperPrefix(f, p) == Len(f) < Len(p) /\ SubSeq(p, 1, Len(f)) = f

\* C7: fields are processed in declared order, depth first, and the first
\* error ends the traversal and is the error returned: when the call returns
\* an error, the failing lookup is the last one made and the only one that
\* failed, the leaves were looked up in declared order, every accessible
\* leaf before the failing value holds what it was assigned from the
\* environment, and every accessible leaf after it holds its original value,
\* also when its own key is in the environment.
C7_FirstErrorEndsTraversal ==
    (Returned /\ err # Nil) =>
        /\ lookups # <<>>
        /\ LET n == Len(lookups)
               f == lookups[n].path
           IN  /\ lookups[n].err = err
               /\ \A i \in 1..(n - 1) : lookups[i].err = Nil
               /\ \A i, j \in 1..n :
                     ( /\ i < j
                       /\ ~Composite(lookups[i].kind)
                       /\ ~Composite(lookups[j].kind) )
                     => After(lookups[i].path, lookups[j].path)
               /\ \A p \in AccessibleLeaves :
                     /\ (After(p, f) \/ ProperPrefix(f, p)) =>
                           /\ \E i \in 1..(n - 1) : lookups[i].path = p
                           /\ NodeAt(target, p) = Assigned(p)
                     /\ After(f, p) => NodeAt(target, p) = NodeAt(target0, p)

\* A failed call: a leaf before the failing value was changed, and a leaf
\* after it, whose key is in the environment, was not.
C7_Witness ==
    /\ Returned /\ err # Nil /\ lookups # <<>>
    /\ LET f == lookups[Len(lookups)].path
       IN  /\ \E p \in AccessibleLeaves :
                 After(p, f) /\ NodeAt(target, p) # NodeAt(target0, p)
           /\ \E p \in AccessibleLeaves :
                 /\ After(f, p) /\ KeyOf(p) \in DOMAIN env
                 /\ NodeAt(target, p) = NodeAt(target0, p)

\* C8: camelToUpperSnakeCase(name, prefix) is, for an empty name, the
\* upper-cased prefix; for any other name, the name with every character
\* upper-cased and "_" before each upper-case character that is not the
\* first and does not follow an upper-case character, after the upper-cased
\* prefix and "_" when the prefix is not empty.
C8_DeriveIsUpperSnakeAfterPrefix ==
    dPc = "done" =>
        dOut = IF dIn = <<>> THEN ToUpper(dPrefix)
               ELSE IF dPrefix = <<>> THEN UpperSnake(dIn)
               ELSE ToUpper(dPrefix) \o <<"_">> \o UpperSnake(dIn)

\* A name with a run of upper-case characters after a lower-case one, under
\* a lower-case prefix.
C8_Witness ==
    /\ dPc = "done"
    /\ dIn = <<"a","A","B">> /\ dPrefix = <<"a">>
    /\ dOut = <<"A","_","A","_","A","B">>

\* C9: on the same target, prefix and environment MustLoadFromEnvironment
\* panics exactly when LoadFromEnvironment returns an error, with that error
\* as the panic value, returns exactly when it returns none, and leaves the
\* target as LoadFromEnvironment leaves it.
C9_MustPanicsExactlyWhenLoadFails ==
    (Returned /\ mustPc # "ready") =>
        /\ (mustPc = "panicked") = (err # Nil)
        /\ (mustPc = "returned") = (err = Nil)
        /\ mustPc = "panicked" => panicValue = err
        /\ mustTarget = target

\* Both entry points ran under a prefix, the target was changed, and
\* MustLoadFromEnvironment panicked.
C9_Witness ==
    /\ Returned /\ mustPc = "panicked"
    /\ prefix # <<>> /\ target # target0

\* C10: the environment is queried only at leaves: no value is read from it
\* under the accumulated key of a struct or of a sequence, and a variable
\* named as such a key (the root struct's prefix included) does not make the
\* call fail.
C10_LookupsOnlyAtLeaves ==
    Returned =>
        /\ \A l \in LookupSet : Composite(l.kind) => ~l.found
        /\ err.type = "unsupported" => ~Composite(err.kind)

====
